---- MODULE Spec2Model ----
(***************************************************************************)
(* Interlock generators of CustomInterlockResearch:                        *)
(*   add_beam_interlock_in_z, add_beam_interlock_in_y  (beam_interlock.py) *)
(*   add_dovetail_interlock_in_z                   (dovetail_interlock.py) *)
(*   add_3d_dovetail_interlock                  (dovetail_interlock_3D.py) *)
(*                                                                         *)
(* Lengths are integers in units of 0.0001 mm (so 0.15 mm = 1500).  Every  *)
(* input length is a multiple of 0.01 mm, which keeps the halvings of the  *)
(* code exact.  Angles are whole degrees; tan is tabulated in thousandths. *)
(* A mesh is the sequence of boolean operations applied to the caller's    *)
(* mesh (<<>> is the caller's mesh itself); the boolean engine and the     *)
(* repair calls are external and appear as entries of the call log.        *)
(***************************************************************************)
EXTENDS Integers, Sequences, FiniteSets, TLC

VARIABLES
    gen,              \* which generator was called
    args,             \* its keyword arguments
    bounds,           \* get_split_face(mesh_left)[2] = <<min_y, max_y, min_z, max_z>>
    plane_x,          \* mesh_left.bounds[1][0]
    pc,               \* position in the generator's body
    interlock_width,  \* max_int_y - min_int_y
    interlock_height, \* max_int_z - min_int_z
    num_int,          \* num_int_vertical / num_int_horiz
    int_extent,       \* int_vertical_height / int_horiz_width
    start,            \* start_height / start_width
    end,              \* end_height / end_width
    large,            \* <<dovetail_large_height, dovetail_y_large_width>> (dovetails)
    plan,             \* pattern_start_heights / pattern_start_widths / the arange
    i,                \* index of the next placement
    mesh_left,
    mesh_right,
    calls,            \* calls made to the boolean engine and the repair routines
    failedAt,         \* first placement whose boolean result was not watertight, or -1
    ret               \* the returned pair, <<>> until the return

vars == <<gen, args, bounds, plane_x, pc, interlock_width, interlock_height,
          num_int, int_extent, start, end, large, plan, i, mesh_left,
          mesh_right, calls, failedAt, ret>>

----------------------------------------------------------------------------
(* Printer constants and the bounds of the checked inputs *)

NOZZLE_SIZE == 4000

LAYER_HEIGHT == 1500

\* beam_*_layers range over 1..MaxLayers
MaxLayers == 2

\* the quantization inputs range over k * 0.01 mm, k in 1..MaxExtentSteps
MaxExtentSteps == 250

Generators == {"beam_z", "beam_y", "dovetail_z", "dovetail_3d"}

IsDovetail(g) == g \in {"dovetail_z", "dovetail_3d"}

TaperAngles == {-10, 0, 10, 30}

Avoidances == {NOZZLE_SIZE, 2 * NOZZLE_SIZE}

\* cut-face extents (width or height) of the full runs: 0.6, 0.8, 1.65, 2.0 mm
CutExtents == {6000, 8000, 16500, 20000}

\* cut-face extents of the quantization runs, with the 30 mm and 30.65 mm faces
QuantExtents == {k * 100 : k \in 1..MaxExtentSteps} \cup {300000, 306500}

\* where the cut face sits: its lowest y and z, and the cut plane's x
FaceOrigin == [y |-> -10000, z |-> 5000, x |-> 100000]

Face(w, h) == <<FaceOrigin.y, FaceOrigin.y + w, FaceOrigin.z, FaceOrigin.z + h>>

Faces == {Face(w, h) : w \in CutExtents, h \in CutExtents}

QuantFaces == {Face(e, e) : e \in QuantExtents}

----------------------------------------------------------------------------
(* Arithmetic of the code, on exact rationals a/b with b > 0 *)

Floor(a, b) == a \div b

Ceil(a, b) == -((-a) \div b)

\* Python's round() and numpy.round(): nearest integer, halves to even
RoundHalfEven(a, b) ==
    LET q == a \div b
        r == a - q * b
    IN  IF 2 * r < b THEN q
        ELSE IF 2 * r > b THEN q + 1
        ELSE IF q % 2 = 0 THEN q ELSE q + 1

\* np.round(x, 3): to the nearest 0.001 mm
Round3(x) == RoundHalfEven(x, 10) * 10

\* round(x, 2): to the nearest 0.01 mm
Round2(x) == RoundHalfEven(x, 100) * 100

Half(x) == x \div 2

----------------------------------------------------------------------------
(* Layer quantization (the head of each generator) *)

\* the branch of the tolerance rule that rounds up far too eagerly
RoundWithToleranceEager(a, b) ==
    IF 4 * (Ceil(a, b) * b - a) < 3 * b THEN Ceil(a, b) ELSE Floor(a, b)

\* if np.ceil(num) - num < 0.25: np.ceil(num) else: np.floor(num), num = a/b
RoundWithTolerance(a, b) ==
    IF 4 * (Ceil(a, b) * b - a) < b THEN Ceil(a, b) ELSE Floor(a, b)

\* the pitch along the layout axis: beam_h (Z layouts) or beam_w (Y layout)
Pitch(g, a) ==
    IF g = "beam_y" THEN a.beam_width_layers * LAYER_HEIGHT
    ELSE a.beam_height_layers * LAYER_HEIGHT

\* the avoidance-inset extent along the layout axis
Available(g, w, h) == IF g = "beam_y" THEN w ELSE h

\* num_int_vertical (np.floor first, then the tolerance rule) and
\* num_int_horiz (the tolerance rule on the quotient itself)
NumInt(g, e, p) ==
    IF g = "beam_y" THEN RoundWithTolerance(e, p)
    ELSE RoundWithTolerance(Floor(e, p), 1)

\* a rounding to 1 decimal where the code rounds to 3
IntExtentRound1(n, p) == RoundHalfEven(n * p, 1000) * 1000

\* int_vertical_height / int_horiz_width = np.round(num * pitch, 3)
IntExtent(n, p) == Round3(n * p)

\* center_height = bounds[2] + cut_height/2, center_width = bounds[0] + cut_width/2
Center(g, b) ==
    IF g = "beam_y" THEN b[1] + Half(b[2] - b[1]) ELSE b[3] + Half(b[4] - b[3])

----------------------------------------------------------------------------
(* Taper solver *)

\* np.tan(np.radians(deg)) in thousandths
Tan1000(deg) ==
    CASE deg = -10 -> -176
      [] deg = 0 -> 0
      [] deg = 10 -> 176
      [] deg = 30 -> 577

\* factor = round(x / LAYER_HEIGHT); round(factor * LAYER_HEIGHT, 2), x = a/b
SnapToLayer(a, b) == Round2(RoundHalfEven(a, b * LAYER_HEIGHT) * LAYER_HEIGHT)

\* _create_dovetail_from_taper: large_height
DovetailLargeHeight(small_height, taper_angle_deg) ==
    LET delta == small_height * Tan1000(taper_angle_deg)
    IN  SnapToLayer(small_height * 1000 + 2 * delta, 1000)

\* _create_3D_dovetail_with_taper: <<z_large_height, y_large_width>>
Dovetail3DLarge(z_small_height, y_small_width, taper_angle_z_deg, taper_angle_y_deg) ==
    LET z_delta == z_small_height * Tan1000(taper_angle_z_deg)
        y_delta == z_small_height * Tan1000(taper_angle_y_deg)
    IN  << SnapToLayer(z_small_height * 1000 + 2 * z_delta, 1000),
           SnapToLayer(y_small_width * 1000 + 2 * y_delta, 1000) >>

\* the large dimensions a generator gets from its taper solver (<<0, 0>> for beams)
LargeOf(g, a, w) ==
    CASE g = "dovetail_z" ->
           << DovetailLargeHeight(a.beam_height_layers * LAYER_HEIGHT, a.taper_angle_deg), 0 >>
      [] g = "dovetail_3d" ->
           Dovetail3DLarge(a.beam_height_layers * LAYER_HEIGHT, Half(w),
                           a.taper_angle_z_deg, a.taper_angle_y_deg)
      [] OTHER -> <<0, 0>>

----------------------------------------------------------------------------
(* Pattern layout *)

RECURSIVE PatternStartsInclusive(_, _, _)
\* a loop that also takes the position equal to the end
PatternStartsInclusive(h, e, step) ==
    IF h <= e THEN <<h>> \o PatternStartsInclusive(h + step, e, step) ELSE <<>>

RECURSIVE PatternStarts(_, _, _)
\* h = start; while h < end: append(h); h += beam_h
PatternStarts(h, e, step) ==
    IF h < e THEN <<h>> \o PatternStarts(h + step, e, step) ELSE <<>>

\* an arange that includes its stop
ArangeInclusive(a, stop, step) ==
    LET n == IF step > 0 THEN Floor(stop - a, step) + 1 ELSE Floor(a - stop, -step) + 1
    IN  [k \in 1..(IF n > 0 THEN n ELSE 0) |-> a + (k - 1) * step]

\* np.arange(start, stop, step), step # 0: ceil((stop - start)/step) values
Arange(a, stop, step) ==
    LET n == IF step > 0 THEN Ceil(stop - a, step) ELSE Ceil(a - stop, -step)
    IN  [k \in 1..(IF n > 0 THEN n ELSE 0) |-> a + (k - 1) * step]

\* the step of the layout loop: beam_h / beam_w, or the dovetail's large height
StepOf(g, a, lg) == IF IsDovetail(g) THEN lg[1] ELSE Pitch(g, a)

\* the positions the placement loop enumerates
PlanOf(g, s, e, step) ==
    IF IsDovetail(g) THEN Arange(s, e, step) ELSE PatternStarts(s, e, step)

----------------------------------------------------------------------------
(* Primitives handed to the boolean engine *)

\* which half receives the union whatever the index
RoleAlwaysLeft(k) == "left"

\* if i % 2 == 0: union into the left half, else: union into the right half
Role(k) == IF k % 2 = 0 THEN "left" ELSE "right"

\* a beam that is put on the right-hand side of the cut plane whatever the
\* index
BeamPrimitiveOneSide(g, a, px, b, w, h, k, pos) ==
    LET beam_d == a.beam_depth_layers * NOZZLE_SIZE
        min_int_y == b[1] + a.avoidance_dist
        min_int_z == b[3] + a.avoidance_dist
        x == px + Half(beam_d)
    IN  IF g = "beam_y"
        THEN [kind |-> "box",
              extents |-> <<beam_d, a.beam_width_layers * LAYER_HEIGHT, h>>,
              center |-> <<x, pos, min_int_z + Half(h)>>]
        ELSE [kind |-> "box",
              extents |-> <<beam_d, w, a.beam_height_layers * LAYER_HEIGHT>>,
              center |-> <<x, min_int_y + Half(w), pos>>]

\* trimesh.creation.box(extents=beam_size) after beam.apply_translation(...)
BeamPrimitive(g, a, px, b, w, h, k, pos) ==
    LET beam_d == a.beam_depth_layers * NOZZLE_SIZE
        min_int_y == b[1] + a.avoidance_dist
        min_int_z == b[3] + a.avoidance_dist
        x == IF k % 2 = 0 THEN px + Half(beam_d) ELSE px - Half(beam_d)
    IN  IF g = "beam_y"
        THEN LET beam_w == a.beam_width_layers * LAYER_HEIGHT
                 beam_h == h
             IN  [kind |-> "box", extents |-> <<beam_d, beam_w, beam_h>>,
                  center |-> <<x, pos, min_int_z + Half(beam_h)>>]
        ELSE LET beam_w == w
                 beam_h == a.beam_height_layers * LAYER_HEIGHT
             IN  [kind |-> "box", extents |-> <<beam_d, beam_w, beam_h>>,
                  center |-> <<x, min_int_y + Half(beam_w), pos>>]

\* the dovetail built before the loop, aligned with the cut plane (x) and
\* centred on the inset width (y); its z range is centred on 0.  The large
\* face is the one at x_min, for an inverted 3D dovetail the one at x_max
DovetailTemplate(g, a, px, b, w, lg) ==
    LET dovetail_depth == a.beam_depth_layers * NOZZLE_SIZE * 2
        min_int_y == b[1] + a.avoidance_dist
        small == a.beam_height_layers * LAYER_HEIGHT
    IN  IF g = "dovetail_3d"
        THEN [kind |-> "dovetail_3d", depth |-> dovetail_depth, width |-> Half(w),
              small |-> small, large |-> lg, inverted |-> a.inverted,
              x_min |-> px - Half(dovetail_depth),
              y_center |-> min_int_y + Half(w), z |-> 0, rotated |-> FALSE,
              rot_axis |-> "none"]
        ELSE [kind |-> "dovetail", depth |-> dovetail_depth, width |-> w,
              small |-> small, large |-> lg, inverted |-> FALSE,
              x_min |-> px - Half(dovetail_depth),
              y_center |-> min_int_y + Half(w), z |-> 0, rotated |-> FALSE,
              rot_axis |-> "none"]

Abs(x) == IF x < 0 THEN -x ELSE x

\* twice the slant height of a tapered side face, sqrt(4 d^2 + x^2), rounded down
Slant2(d, x) ==
    CHOOSE r \in (2 * d)..(2 * d + Abs(x)) :
        r * r <= 4 * d * d + x * x /\ 4 * d * d + x * x < (r + 1) * (r + 1)

\* Trimesh.centroid is the area-weighted mean of the triangle centroids, not
\* the centre of the bounding box: along the depth it lies nearer the large
\* face.  Its distance from the middle of the depth, towards the large face,
\* computed on lengths in steps of 0.005 mm and given to 0.0005 mm
CentroidOffset(t) ==
    LET d == t.depth \div 50
        sz == t.small \div 50
        lz == t.large[1] \div 50
        sy == Abs(t.width) \div 50
        ly == IF t.kind = "dovetail_3d" THEN Abs(t.large[2]) \div 50 ELSE sy
        s2y == Slant2(d, ly - sy)
        s2z == Slant2(d, lz - sz)
        num12 == 6 * (lz * ly - sz * sy) * d + s2y * d * (lz - sz)
                 + s2z * d * (ly - sy)
        den2 == 2 * (lz * ly + sz * sy) + (lz + sz) * s2y + (ly + sy) * s2z
    IN  5 * ((5 * num12) \div (3 * den2))

\* a copy that is turned about the x direction
DovetailPrimitiveAboutX(template, k, pos) ==
    [template EXCEPT !.z = @ + pos, !.rotated = (k % 2 # 0),
                     !.rot_axis = IF k % 2 # 0 THEN "x" ELSE "none"]

\* dovetail.copy(), apply_translation([0, 0, h]) and, at odd indices, the
\* rotation by pi about the direction [0, 0, 1] through the copy's centroid,
\* which mirrors the copy's x range in the centroid's x
DovetailPrimitive(template, k, pos) ==
    LET off == CentroidOffset(template)
        shift == IF template.inverted THEN 2 * off ELSE -2 * off
    IN  [template EXCEPT !.z = @ + pos, !.rotated = (k % 2 # 0),
                         !.rot_axis = IF k % 2 # 0 THEN "z" ELSE "none",
                         !.x_min = IF k % 2 # 0 THEN @ + shift ELSE @]

\* the primitive of placement k (from 0) at position pos
Primitive(g, a, px, b, w, h, lg, k, pos) ==
    IF IsDovetail(g)
    THEN DovetailPrimitive(DovetailTemplate(g, a, px, b, w, lg), k, pos)
    ELSE BeamPrimitive(g, a, px, b, w, h, k, pos)

\* trimesh.boolean.union([mesh, prim]) / trimesh.boolean.difference([mesh, prim])
Boolean(fn, mesh, prim) == Append(mesh, [op |-> fn, prim |-> prim])

NoPrimitive == [kind |-> "none"]

Call(fn, on, mesh, prim, k) ==
    [fn |-> fn, on |-> on, input |-> mesh, prim |-> prim, step |-> k]

IsBoolean(c) == c.fn \in {"union", "difference"}

IsRepair(c) == c.fn \in {"fill_holes", "fix_normals"}

\* a repair pass that forgets the normals of the right half
RepairSequenceShort ==
    << <<"fill_holes", "left">>, <<"fix_normals", "left">>, <<"fill_holes", "right">> >>

\* mesh_left.fill_holes(); mesh_left.fix_normals(); mesh_right.fill_holes();
\* mesh_right.fix_normals()
RepairSequence ==
    << <<"fill_holes", "left">>, <<"fix_normals", "left">>,
       <<"fill_holes", "right">>, <<"fix_normals", "right">> >>

----------------------------------------------------------------------------
(* The calls *)

\* beam_depth_layers is left at its default
DefaultDepthLayers == 2

BeamArgs ==
    [beam_width_layers : 1..MaxLayers, beam_height_layers : 1..MaxLayers,
     beam_depth_layers : {DefaultDepthLayers}, avoidance_dist : Avoidances]

DovetailArgs ==
    [beam_width_layers : 1..MaxLayers, beam_height_layers : 1..MaxLayers,
     beam_depth_layers : {DefaultDepthLayers}, avoidance_dist : Avoidances,
     taper_angle_deg : TaperAngles]

Dovetail3DArgs ==
    [beam_width_layers : 1..MaxLayers, beam_height_layers : 1..MaxLayers,
     beam_depth_layers : {DefaultDepthLayers}, avoidance_dist : Avoidances,
     taper_angle_z_deg : TaperAngles, taper_angle_y_deg : TaperAngles,
     inverted : BOOLEAN]

ArgsOf(g) ==
    CASE g = "dovetail_z" -> DovetailArgs
      [] g = "dovetail_3d" -> Dovetail3DArgs
      [] OTHER -> BeamArgs

InitWith(faces) ==
    /\ gen \in Generators
    /\ args \in ArgsOf(gen)
    /\ bounds \in faces
    /\ plane_x = FaceOrigin.x
    /\ pc = "entry"
    /\ interlock_width = 0
    /\ interlock_height = 0
    /\ num_int = 0
    /\ int_extent = 0
    /\ start = 0
    /\ end = 0
    /\ large = <<0, 0>>
    /\ plan = <<>>
    /\ i = 0
    /\ mesh_left = <<>>
    /\ mesh_right = <<>>
    /\ calls = <<>>
    /\ failedAt = -1
    /\ ret = <<>>

Init == InitWith(Faces)

InitQuant == InitWith(QuantFaces)

\* get_split_face, the avoidance inset, the feature count, the pattern extent
\* and its start and end
Quantize ==
    /\ pc = "entry"
    /\ LET w == (bounds[2] - args.avoidance_dist) - (bounds[1] + args.avoidance_dist)
           h == (bounds[4] - args.avoidance_dist) - (bounds[3] + args.avoidance_dist)
           n == NumInt(gen, Available(gen, w, h), Pitch(gen, args))
           x == IntExtent(n, Pitch(gen, args))
       IN  /\ interlock_width' = w
           /\ interlock_height' = h
           /\ num_int' = n
           /\ int_extent' = x
           /\ start' = Center(gen, bounds) - Half(x)
           /\ end' = Center(gen, bounds) + Half(x)
    /\ pc' = "quantized"
    /\ UNCHANGED <<gen, args, bounds, plane_x, large, plan, i, mesh_left,
                   mesh_right, calls, failedAt, ret>>

\* the primitive sizes (the taper solver and the template for dovetails) and
\* the positions the loop will visit; np.arange raises on a zero step
Build ==
    /\ pc = "quantized"
    /\ LET lg == LargeOf(gen, args, interlock_width)
           step == StepOf(gen, args, lg)
       IN  /\ large' = lg
           /\ IF step = 0
              THEN pc' = "error" /\ plan' = plan
              ELSE pc' = "loop" /\ plan' = PlanOf(gen, start, end, step)
    /\ i' = 0
    /\ UNCHANGED <<gen, args, bounds, plane_x, interlock_width, interlock_height,
                   num_int, int_extent, start, end, mesh_left, mesh_right,
                   calls, failedAt, ret>>

\* extrude_polygon(trapezoid, height=width) is outside this repository and
\* may refuse a zero height
BuildRaises ==
    /\ pc = "quantized"
    /\ gen = "dovetail_z"
    /\ interlock_width = 0
    /\ pc' = "error"
    /\ UNCHANGED <<gen, args, bounds, plane_x, interlock_width, interlock_height,
                   num_int, int_extent, start, end, large, plan, i, mesh_left,
                   mesh_right, calls, failedAt, ret>>

\* one pass of the placement loop: the primitive, then the two boolean
\* calls; the engine's results may or may not be watertight and the code
\* does not look
Place ==
    /\ pc = "loop"
    /\ i < Len(plan)
    /\ LET prim == Primitive(gen, args, plane_x, bounds, interlock_width,
                             interlock_height, large, i, plan[i + 1])
           adds == Role(i)
           fl == IF adds = "left" THEN "union" ELSE "difference"
           fr == IF adds = "left" THEN "difference" ELSE "union"
       IN  /\ mesh_left' = Boolean(fl, mesh_left, prim)
           /\ mesh_right' = Boolean(fr, mesh_right, prim)
           /\ calls' = calls \o << Call(fl, "left", mesh_left, prim, i),
                                   Call(fr, "right", mesh_right, prim, i) >>
    /\ \E watertight \in BOOLEAN :
           failedAt' = IF failedAt = -1 /\ ~watertight THEN i ELSE failedAt
    /\ i' = i + 1
    /\ UNCHANGED <<gen, args, bounds, plane_x, pc, interlock_width,
                   interlock_height, num_int, int_extent, start, end, large,
                   plan, ret>>

\* the number of repair calls made so far
Repaired == Len(calls) - 2 * Len(plan)

\* the next repair call, once the loop is over
Repair ==
    /\ pc = "loop"
    /\ i = Len(plan)
    /\ Repaired < Len(RepairSequence)
    /\ LET r == RepairSequence[Repaired + 1]
       IN  calls' = Append(calls,
                           Call(r[1], r[2],
                                IF r[2] = "left" THEN mesh_left ELSE mesh_right,
                                NoPrimitive, -1))
    /\ UNCHANGED <<gen, args, bounds, plane_x, pc, interlock_width,
                   interlock_height, num_int, int_extent, start, end, large,
                   plan, i, mesh_left, mesh_right, failedAt, ret>>

\* return mesh_left, mesh_right
Return ==
    /\ pc = "loop"
    /\ i = Len(plan)
    /\ Repaired = Len(RepairSequence)
    /\ ret' = <<mesh_left, mesh_right>>
    /\ pc' = "done"
    /\ UNCHANGED <<gen, args, bounds, plane_x, interlock_width, interlock_height,
                   num_int, int_extent, start, end, large, plan, i, mesh_left,
                   mesh_right, calls, failedAt>>

Next == Quantize \/ Build \/ BuildRaises \/ Place \/ Repair \/ Return

Spec == Init /\ [][Next]_vars

\* the quantization step alone, on the finer grid of cut faces
NextQuant == Quantize

SpecQuant == InitQuant /\ [][NextQuant]_vars

\* the quantization and the taper solver with the layout, on the finer grid
NextTaper == Quantize \/ Build \/ BuildRaises

SpecTaper == InitQuant /\ [][NextTaper]_vars

----------------------------------------------------------------------------
(* Properties *)

\* the available extent E and the pitch P of the call
E == Available(gen, interlock_width, interlock_height)

P == Pitch(gen, args)

Quantized == pc # "entry"

Planned == pc \in {"loop", "done"}

\* the cut face's bounds along the layout axis
LayoutMin == IF gen = "beam_y" THEN bounds[1] ELSE bounds[3]

LayoutMax == IF gen = "beam_y" THEN bounds[2] ELSE bounds[4]

BooleanCalls == {k \in 1..Len(calls) : IsBoolean(calls[k])}

RepairCalls(fn, on) ==
    {k \in 1..Len(calls) : calls[k].fn = fn /\ calls[k].on = on}

\* C1: in every generator, for E > 0, whenever ceil(E/P) - E/P < 0.25 the
\* feature count is ceil(E/P).
C1_RoundUpBranch ==
    (Quantized /\ E > 0 /\ 4 * (Ceil(E, P) * P - E) < P) => num_int = Ceil(E, P)

\* C2: in every generator, for E > 0, whenever ceil(E/P) - E/P >= 0.25 the
\* feature count is floor(E/P) and the pattern extent is count * P; E = 29.2 mm
\* with P = 0.3 mm gives 97 and 29.1 mm, and E/P = 99.5 gives 99.
C2_RoundDownBranch ==
    Quantized =>
        /\ (E > 0 /\ 4 * (Ceil(E, P) * P - E) >= P) =>
               (num_int = Floor(E, P) /\ int_extent = num_int * P)
        /\ (E = 292000 /\ P = 3000) => (num_int = 97 /\ int_extent = 291000)
        /\ (E > 0 /\ 2 * E = 199 * P) => num_int = 99

C2_Witness ==
    /\ pc = "quantized" /\ gen = "beam_y"
    /\ E = 292000 /\ P = 3000 /\ num_int = 97 /\ int_extent = 291000

\* C3: for E > 0 the pattern extent exceeds E by at most half a pitch and is
\* the feature count times the pitch.
C3_ExtentBound ==
    (Quantized /\ E > 0) =>
        (2 * (int_extent - E) <= P /\ int_extent = num_int * P)

C3_Witness ==
    /\ pc = "quantized" /\ gen = "beam_y"
    /\ E > 0 /\ 4 * (int_extent - E) > P - 500 /\ int_extent = num_int * P

\* the avoidance inset leaves a face that is positive on both axes, so that
\* every primitive is a proper solid
ProperInset == interlock_width > 0 /\ interlock_height > 0

\* C4: for E > 0 (on a proper inset) the number of placements the loop
\* visits is the feature count of the quantization step.
C4_PlanLengthIsCount == (Planned /\ E > 0 /\ ProperInset) => Len(plan) = num_int

C6_RoleAlternation ==
    /\ Cardinality(BooleanCalls) = 2 * i
    /\ \A j \in 0..(i - 1) :
        LET l == calls[2 * j + 1]
            r == calls[2 * j + 2]
        IN  /\ l.on = "left" /\ r.on = "right"
            /\ l.step = j /\ r.step = j
            /\ l.prim = r.prim
            /\ l.fn = (IF j % 2 = 0 THEN "union" ELSE "difference")
            /\ r.fn = (IF j % 2 = 0 THEN "difference" ELSE "union")
            /\ l.input = (IF j = 0 THEN <<>>
                          ELSE Boolean(calls[2 * j - 1].fn, calls[2 * j - 1].input,
                                       calls[2 * j - 1].prim))
            /\ r.input = (IF j = 0 THEN <<>>
                          ELSE Boolean(calls[2 * j].fn, calls[2 * j].input,
                                       calls[2 * j].prim))
            /\ (j = i - 1) =>
                   /\ mesh_left = Boolean(l.fn, l.input, l.prim)
                   /\ mesh_right = Boolean(r.fn, r.input, r.prim)

C6_Witness ==
    /\ pc = "done" /\ gen = "dovetail_3d" /\ Len(plan) >= 3
    /\ Len(mesh_left) = 3 /\ mesh_left[2].op = "difference"

\* C7: every repair call comes after the last boolean call, each of the four
\* repair calls is made at most once, and the pair is returned only when
\* each has been made exactly once, also when the plan is empty.
C7_RepairOnceAtEnd ==
    /\ \A k \in 1..Len(calls) :
           IsRepair(calls[k]) =>
               (i = Len(plan) /\ \A m \in BooleanCalls : m < k)
    /\ \A fn \in {"fill_holes", "fix_normals"}, on \in {"left", "right"} :
           /\ Cardinality(RepairCalls(fn, on)) <= 1
           /\ (pc = "done") => Cardinality(RepairCalls(fn, on)) = 1
    /\ (ret # <<>>) => pc = "done"
    /\ (pc = "done") => ret = <<mesh_left, mesh_right>>

C7_Witness ==
    /\ pc = "done" /\ Len(plan) >= 2
    /\ Len(calls) = 2 * Len(plan) + 4 /\ IsRepair(calls[Len(calls)])

\* C8: when E <= 0 the feature count is exactly 0 and the pattern extent is 0.
C8_NonPositiveExtentGivesZero ==
    (Quantized /\ E <= 0) => (num_int = 0 /\ int_extent = 0)

C10_AbortOnNonWatertight ==
    (failedAt # -1 /\ ProperInset) =>
        /\ pc # "done"
        /\ \A k \in BooleanCalls : calls[k].step <= failedAt

\* the small dimensions handed to the taper solver, and its angles
SmallZ == args.beam_height_layers * LAYER_HEIGHT

SmallY == Half(interlock_width)

TaperZ == IF gen = "dovetail_3d" THEN args.taper_angle_z_deg ELSE args.taper_angle_deg

TaperY == args.taper_angle_y_deg

\* the taper solver has run
Solved == IsDovetail(gen) /\ Planned

\* C11: for a taper angle above 0 the snapped large dimension is at least the
\* small dimension it was solved from: the Z height in both dovetail
\* generators and the Y width in the 3D one (stated for proper insets whose
\* small width is at least one layer).
C11_LargeAtLeastSmall ==
    (Solved /\ ProperInset /\ SmallY >= LAYER_HEIGHT) =>
        /\ (TaperZ > 0) => large[1] >= SmallZ
        /\ (gen = "dovetail_3d" /\ TaperY > 0) => large[2] >= SmallY

\* C12: a dovetail generator called with a taper angle of 0 or below builds
\* no primitive, makes no boolean call and returns no pair (stated for proper
\* insets).
C12_NonPositiveTaperRejected ==
    (/\ IsDovetail(gen)
     /\ ProperInset
     /\ (TaperZ <= 0 \/ (gen = "dovetail_3d" /\ TaperY <= 0))) =>
        (~Planned /\ BooleanCalls = {} /\ ret = <<>>)

\* large = snap(small + 2 * small * tan(theta)), each axis from its own small
\* dimension and angle
SnapRule(small, deg) == SnapToLayer(small * 1000 + 2 * small * Tan1000(deg), 1000)

\* C13: the large dimension of each axis is the snap of small + 2 * small *
\* tan(theta) for that axis' own small dimension and angle, in the 3D solver
\* (Z and Y) and in the linear one (Z); 0.6 mm at 10 degrees gives 0.75 mm
\* (stated for proper insets and angles above 0).
C13_AxesSolvedIndependently ==
    (Solved /\ ProperInset) =>
        /\ (TaperZ > 0) => large[1] = SnapRule(SmallZ, TaperZ)
        /\ (gen = "dovetail_3d" /\ TaperY > 0) => large[2] = SnapRule(SmallY, TaperY)
        /\ DovetailLargeHeight(6000, 10) = 7500

\* the placement a boolean call belongs to is at its plan position, not
\* rotated at an even index and rotated about the given axis at an odd one
PlacedAndTurned(c, axis) ==
    /\ c.prim.z = plan[c.step + 1]
    /\ (c.step % 2 = 0) => (~c.prim.rotated /\ c.prim.rot_axis = "none")
    /\ (c.step % 2 # 0) => (c.prim.rotated /\ c.prim.rot_axis = axis)

\* C14 as stated: in both dovetail generators an even-indexed primitive is
\* only translated to its position and an odd-indexed one is translated and
\* then rotated by 180 degrees about the split axis X through its centroid;
\* the beam generators never rotate a primitive (stated for proper insets and
\* angles above 0).
C14_RotationAboutSplitAxis ==
    (ProperInset /\ (IsDovetail(gen) => TaperZ > 0)) =>
        \A k \in BooleanCalls :
            IF IsDovetail(gen)
            THEN PlacedAndTurned(calls[k], "x")
            ELSE calls[k].prim.kind = "box"

\* C14 amended: in both dovetail generators an even-indexed primitive is only
\* translated to its position and an odd-indexed one is translated and then
\* rotated by 180 degrees about the direction [0, 0, 1] (Z, the layout axis)
\* through its centroid; the beam generators place untransformed boxes.
C14_RotationAboutLayoutAxis ==
    \A k \in BooleanCalls :
        IF IsDovetail(gen)
        THEN PlacedAndTurned(calls[k], "z")
        ELSE calls[k].prim.kind = "box"

C14_Witness ==
    /\ IsDovetail(gen) /\ pc = "done" /\ ProperInset
    /\ Len(plan) >= 2
    /\ \E k \in BooleanCalls : calls[k].step = 1 /\ calls[k].prim.rotated

\* the inset extent along the in-plane axis that is not the layout axis
NonLayoutExtent == IF gen = "beam_y" THEN interlock_height ELSE interlock_width

\* every dimension of a box is above 0
PositiveBox(prim) == \A n \in 1..3 : prim.extents[n] > 0

\* C15: when the inset extent of the non-layout axis is not positive while
\* that of the layout axis is, the call does not return a pair and no
\* primitive with a non-positive dimension reaches a union or difference
\* call (stated for the two beam generators).
C15_NonLayoutExtentChecked ==
    (~IsDovetail(gen) /\ Quantized /\ E > 0 /\ NonLayoutExtent <= 0) =>
        /\ pc # "done"
        /\ \A k \in BooleanCalls : PositiveBox(calls[k].prim)

\* the coordinate of the layout axis in a box's centre and extents
LayoutAxis == IF gen = "beam_y" THEN 2 ELSE 3

\* C16: in the two beam generators every placed beam's interval along the
\* layout axis, [position - pitch/2, position + pitch/2], lies inside the
\* inset range [min + avoidance_dist, max - avoidance_dist] of that axis
\* (stated for proper insets).
C16_BeamsInsideInset ==
    (~IsDovetail(gen) /\ ProperInset) =>
        \A k \in BooleanCalls :
            LET c == calls[k].prim.center[LayoutAxis]
                e == calls[k].prim.extents[LayoutAxis]
            IN  /\ 2 * c - e >= 2 * (LayoutMin + args.avoidance_dist)
                /\ 2 * c + e <= 2 * (LayoutMax - args.avoidance_dist)

\* the coordinate of the non-layout in-plane axis, and the cut face's bounds
\* along it
OtherAxis == IF gen = "beam_y" THEN 3 ELSE 2

OtherMin == IF gen = "beam_y" THEN bounds[3] ELSE bounds[1]

OtherMax == IF gen = "beam_y" THEN bounds[4] ELSE bounds[2]

C18_DovetailStraddlesPlane ==
    (/\ IsDovetail(gen) /\ ProperInset /\ TaperZ > 0
     /\ (gen = "dovetail_3d") => TaperY > 0) =>
        \A k \in BooleanCalls :
            LET prim == calls[k].prim
                D == 2 * args.beam_depth_layers * NOZZLE_SIZE
            IN  /\ prim.depth = D
                /\ 2 * prim.x_min = 2 * plane_x - D

====
